---- MODULE Spec2Model ----
(***************************************************************************)
(* A model of the skin server's versioned HTTP API (valhalla/api/v1.py):   *)
(* the handshake/response login protocol over the pending-verification    *)
(* cache, the signed bearer tokens, the Player store, and the texture      *)
(* resource with its history rows, blobs and stored objects.               *)
(*                                                                         *)
(* Requests run concurrently.  A response call is modelled statement by    *)
(* statement at every access to the shared cache (each ExpiringDict        *)
(* operation takes the dictionary's own lock, so each one is atomic and    *)
(* nothing else is).                                                       *)
(***************************************************************************)
EXTENDS Integers, Sequences, FiniteSets, TLC

\* ------------------------------------------------------------------ bounds
MaxHandshakes == 2     \* handshakes in one behaviour
MaxTime == 30          \* the clock stops here
ClockStep == 15        \* the small step of the clock

\* ------------------------------------------------------- program constants
MaxLen == 100          \* ExpiringDict(100, 30): capacity
MaxAge == 30           \* ExpiringDict(100, 30): seconds an entry lives
Expiration == 3600     \* gen_auth_token(user, expiration=3600)

Threads == {"t1", "t2"}             \* response calls in flight at once
Names == {"alice", "bob"}          \* display names the platform reports
LoginNames == {"alice"}            \* account names offered at login
Addrs == {"10.0.0.1", "10.0.0.2"}
Uuids == {"u1", "u2"}
VerifyTokens == {0, 1}             \* random.getrandbits(32), two of its values

Missing == "<missing>"             \* a form field the request does not carry
DigitText == <<"0", "1">>
VerifyTexts == {"0", "1", "abc"}

\* int(text): the integer a decimal text denotes; ValueError otherwise.
IsIntText(s) == \E i \in 1..Len(DigitText) : DigitText[i] = s
IntOf(s) == (CHOOSE i \in 1..Len(DigitText) : DigitText[i] = s) - 1

NoId == 0                          \* user.id of an object that was never flushed
NoToken == [id |-> -1, exp |-> -1]

VARIABLES
    offline,          \* Config.OFFLINE
    now,              \* time.time()
    validate_tokens,  \* the ExpiringDict, in insertion order
    handshakes,       \* number of handshakes so far (names each entry)
    passes,           \* per handshake: response calls that went on to has_joined
    users,            \* the committed Player rows; a row's id is its index
    req,              \* per thread: the request it is handling
    textures,         \* the committed Texture history rows, by id
    uploads,          \* the committed Blob rows, by id
    fs,               \* the storage location: object name -> bytes, times written
    uploaded,         \* per history row: what the request that wrote it sent
    last              \* the last texture or profile request and its answer

vars == <<offline, now, validate_tokens, handshakes, passes, users, req,
          textures, uploads, fs, uploaded, last>>

texVars == <<textures, uploads, fs, uploaded, last>>

\* ------------------------------------------------------------ ExpiringDict
\* An entry is [key, token, addr, time, hs]; hs is the handshake that made it.
Find(c, k) == IF \E i \in 1..Len(c) : c[i].key = k
              THEN CHOOSE i \in 1..Len(c) : c[i].key = k
              ELSE 0

Remove(c, k) == SelectSeq(c, LAMBDA e : e.key # k)

Fresh(e, t) == t - e.time < MaxAge

\* key in dict: true for a live entry; an expired entry is deleted on the way.
Contains(c, k, t) == Find(c, k) # 0 /\ Fresh(c[Find(c, k)], t)
AfterContains(c, k, t) ==
    IF Find(c, k) # 0 /\ ~Fresh(c[Find(c, k)], t) THEN Remove(c, k) ELSE c

\* dict[key]: KeyError for a missing or an expired entry (which is deleted).
GetItemRaises(c, k, t) == ~Contains(c, k, t)
AfterGetItem(c, k, t) == AfterContains(c, k, t)

\* del dict[key]: KeyError for a missing entry; expiry is not looked at.
DelItemRaises(c, k) == Find(c, k) = 0
AfterDelItem(c, k) == Remove(c, k)

\* dict[key] = value: at capacity the key itself, or else the oldest entry,
\* makes room; an existing key keeps its place in the order.
SetItem(c, e) ==
    LET room == IF Len(c) = MaxLen
                THEN IF Find(c, e.key) # 0 THEN Remove(c, e.key) ELSE Tail(c)
                ELSE c
    IN IF Find(room, e.key) # 0
       THEN [room EXCEPT ![Find(room, e.key)] = e]
       ELSE Append(room, e)

\* ------------------------------------------------------------------ Players
FindUser(us, uuid) == IF \E i \in 1..Len(us) : us[i].uuid = uuid
                      THEN CHOOSE i \in 1..Len(us) : us[i].uuid = uuid
                      ELSE 0

\* get_or_create_user: a known Player is renamed and the change committed; an
\* unknown one is added to the session and never committed, so the object
\* handed back has no id and the row is gone when the request's session ends.
get_or_create_user(us, uuid, name) ==
    IF FindUser(us, uuid) # 0
    THEN [id |-> FindUser(us, uuid), uuid |-> uuid, name |-> name,
          store |-> [us EXCEPT ![FindUser(us, uuid)].name = name]]
    ELSE [id |-> NoId, uuid |-> uuid, name |-> name, store |-> us]

\* gen_auth_token: the signed payload {'id': user.id} and its expiry.
gen_auth_token(user, expiration, t) == [id |-> user.id, exp |-> t + expiration]

\* User.get(id)
UserGet(us, id) == IF id \in 1..Len(us) THEN id ELSE NoId

\* verify_auth_token: "expired" after exp, "bad" for a token this server did
\* not sign, else the Player the payload's id resolves to (NoId: nobody).
TokenExpired(tok, t) == tok.exp < t
verify_auth_token(us, tok, t) ==
    IF tok = NoToken THEN NoId
    ELSE IF TokenExpired(tok, t) THEN NoId
    ELSE UserGet(us, tok.id)

\* ------------------------------------------------------- requests in flight
Idle == [pc |-> "idle", name |-> "", verify |-> -1, addr |-> "",
         exc |-> "none", found |-> 0, got |-> 0, parsed |-> FALSE,
         asked |-> FALSE, joined |-> FALSE, userName |-> "",
         status |-> 0, reason |-> "", token |-> NoToken, userId |-> ""]

\* abort(status, reason), or an exception nobody handles (status 500).
Done(r, status, reason) ==
    [r EXCEPT !.pc = "done", !.status = status, !.reason = reason,
              !.verify = -1, !.addr = "", !.got = 0]

NoPending == "The user has not requested a token or it has expired"

Forms == [name : LoginNames \cup {Missing}, verifyToken : VerifyTexts \cup {Missing}]

Init ==
    /\ offline \in BOOLEAN
    /\ now = 0
    /\ validate_tokens = <<>>
    /\ handshakes = 0
    /\ passes = [h \in {} |-> 0]
    /\ users \in {<<>>, <<[uuid |-> "u1", name |-> "alice"]>>}
    /\ req = [t \in Threads |-> Idle]
    /\ textures = <<>>
    /\ uploads = <<>>
    /\ fs = [h \in {} |-> ""]
    /\ uploaded = <<>>
    /\ last = [op |-> "none", status |-> 0, handler |-> 0, cross |-> FALSE, type |-> ""]

\* time passes
Tick(d) ==
    /\ now + d <= MaxTime
    /\ now' = now + d
    /\ UNCHANGED <<offline, validate_tokens, handshakes, passes, users, req>>
    /\ UNCHANGED texVars

\* AuthHandshakeResource.post: a fresh random token is stored under the name,
\* with the requester's address, replacing what was there.
Handshake(name, addr, verify_token) ==
    /\ handshakes < MaxHandshakes
    /\ handshakes' = handshakes + 1
    /\ passes' = [h \in 1..(handshakes + 1) |-> IF h <= handshakes THEN passes[h] ELSE 0]
    /\ validate_tokens' = SetItem(validate_tokens,
                                  [key |-> name, token |-> verify_token, addr |-> addr,
                                   time |-> now, hs |-> handshakes + 1])
    /\ UNCHANGED <<offline, now, users, req>>
    /\ UNCHANGED texVars

\* offline_mode(): the OFFLINE setting of the running application
offline_mode == offline

\* (mutant) the form fields are read before the offline gate.
RespStartFormFirst(t, form, addr) ==
    /\ req[t].pc \in {"idle", "done"}
    /\ IF form.name = Missing \/ form.verifyToken = Missing
       THEN /\ req' = [req EXCEPT ![t] = Done(Idle, 400, "missing form field")]
            /\ UNCHANGED validate_tokens
       ELSE IF ~IsIntText(form.verifyToken)
       THEN /\ req' = [req EXCEPT ![t] =
                          Done([Idle EXCEPT !.name = form.name], 500, "ValueError")]
            /\ UNCHANGED validate_tokens
       ELSE IF offline_mode
       THEN /\ req' = [req EXCEPT ![t] = Done(Idle, 501, "Not Implemented")]
            /\ UNCHANGED validate_tokens
       ELSE LET r == [Idle EXCEPT !.name = form.name,
                                  !.verify = IntOf(form.verifyToken),
                                  !.addr = addr, !.parsed = TRUE]
            IN /\ validate_tokens' = AfterContains(validate_tokens, form.name, now)
               /\ IF Contains(validate_tokens, form.name, now)
                  THEN req' = [req EXCEPT ![t] =
                                  [r EXCEPT !.pc = "read",
                                            !.found = validate_tokens[Find(validate_tokens, form.name)].hs]]
                  ELSE req' = [req EXCEPT ![t] = Done(r, 403, NoPending)]
    /\ UNCHANGED <<offline, now, handshakes, passes, users>>
    /\ UNCHANGED texVars

\* AuthResponseResource.post up to and including `name not in validate_tokens`.
RespStart(t, form, addr) ==
    /\ req[t].pc \in {"idle", "done"}
    /\ IF offline_mode
       THEN /\ req' = [req EXCEPT ![t] = Done(Idle, 501, "Not Implemented")]
            /\ UNCHANGED validate_tokens
       ELSE IF form.name = Missing \/ form.verifyToken = Missing
       THEN /\ req' = [req EXCEPT ![t] = Done(Idle, 400, "missing form field")]
            /\ UNCHANGED validate_tokens
       ELSE IF ~IsIntText(form.verifyToken)
       THEN /\ req' = [req EXCEPT ![t] =
                          Done([Idle EXCEPT !.name = form.name], 500, "ValueError")]
            /\ UNCHANGED validate_tokens
       ELSE LET r == [Idle EXCEPT !.name = form.name,
                                  !.verify = IntOf(form.verifyToken),
                                  !.addr = addr, !.parsed = TRUE]
            IN /\ validate_tokens' = AfterContains(validate_tokens, form.name, now)
               /\ IF Contains(validate_tokens, form.name, now)
                  THEN req' = [req EXCEPT ![t] =
                                  [r EXCEPT !.pc = "read",
                                            !.found = validate_tokens[Find(validate_tokens, form.name)].hs]]
                  ELSE req' = [req EXCEPT ![t] = Done(r, 403, NoPending)]
    /\ UNCHANGED <<offline, now, handshakes, passes, users>>
    /\ UNCHANGED texVars

\* token, addr = validate_tokens[name], and the two comparisons of the try block.
RespRead(t) ==
    /\ req[t].pc = "read"
    /\ validate_tokens' = AfterGetItem(validate_tokens, req[t].name, now)
    /\ IF GetItemRaises(validate_tokens, req[t].name, now)
       THEN req' = [req EXCEPT ![t].pc = "del", ![t].exc = "KeyError",
                               ![t].verify = -1, ![t].addr = ""]
       ELSE LET e == validate_tokens[Find(validate_tokens, req[t].name)]
            IN req' = [req EXCEPT ![t].pc = "del",
                                  ![t].got = e.hs,
                                  ![t].verify = -1,
                                  ![t].addr = "",
                                  ![t].exc = IF e.token # req[t].verify THEN "abort_token"
                                             ELSE IF e.addr # req[t].addr THEN "abort_ip"
                                             ELSE "none"]
    /\ UNCHANGED <<offline, now, handshakes, passes, users>>
    /\ UNCHANGED texVars

\* (mutant) the entry is deleted on the success path only: no finally block.
RespDelOnSuccessOnly(t) ==
    /\ req[t].pc = "del"
    /\ IF req[t].exc = "KeyError"
       THEN /\ req' = [req EXCEPT ![t] = Done(req[t], 500, "KeyError")]
            /\ UNCHANGED <<validate_tokens, passes>>
       ELSE IF req[t].exc = "abort_token"
       THEN /\ req' = [req EXCEPT ![t] = Done(req[t], 403, "The verify token is not valid")]
            /\ UNCHANGED <<validate_tokens, passes>>
       ELSE IF req[t].exc = "abort_ip"
       THEN /\ req' = [req EXCEPT ![t] = Done(req[t], 403, "IP does not match")]
            /\ UNCHANGED <<validate_tokens, passes>>
       ELSE IF DelItemRaises(validate_tokens, req[t].name)
       THEN /\ req' = [req EXCEPT ![t] = Done(req[t], 500, "KeyError")]
            /\ UNCHANGED <<validate_tokens, passes>>
       ELSE /\ validate_tokens' = AfterDelItem(validate_tokens, req[t].name)
            /\ req' = [req EXCEPT ![t].pc = "join"]
            /\ passes' = [passes EXCEPT ![req[t].got] = @ + 1]
    /\ UNCHANGED <<offline, now, handshakes, users>>
    /\ UNCHANGED texVars

\* finally: del validate_tokens[name].  A KeyError raised here replaces the
\* exception the try block was leaving with.
RespDel(t) ==
    /\ req[t].pc = "del"
    /\ validate_tokens' = AfterDelItem(validate_tokens, req[t].name)
    /\ IF DelItemRaises(validate_tokens, req[t].name) \/ req[t].exc = "KeyError"
       THEN req' = [req EXCEPT ![t] = Done(req[t], 500, "KeyError")] /\ UNCHANGED passes
       ELSE IF req[t].exc = "abort_token"
       THEN req' = [req EXCEPT ![t] = Done(req[t], 403, "The verify token is not valid")]
            /\ UNCHANGED passes
       ELSE IF req[t].exc = "abort_ip"
       THEN req' = [req EXCEPT ![t] = Done(req[t], 403, "IP does not match")]
            /\ UNCHANGED passes
       ELSE /\ req' = [req EXCEPT ![t].pc = "join"]
            /\ passes' = [passes EXCEPT ![req[t].got] = @ + 1]
    /\ UNCHANGED <<offline, now, handshakes, users>>
    /\ UNCHANGED texVars

\* has_joined(name, server_id, remote_addr) and, on the platform's yes,
\* get_or_create_user, gen_auth_token and the answer.
RespJoin(t, ok, uuid, name) ==
    /\ req[t].pc = "join"
    /\ IF ok
       THEN LET user == get_or_create_user(users, uuid, name)
            IN /\ users' = user.store
               /\ req' = [req EXCEPT ![t] =
                             [Done(req[t], 200, "") EXCEPT
                                 !.asked = TRUE, !.joined = TRUE,
                                 !.token = gen_auth_token(user, Expiration, now),
                                 !.userId = user.uuid, !.userName = user.name]]
       ELSE /\ req' = [req EXCEPT ![t] = [Done(req[t], 403, "Forbidden") EXCEPT !.asked = TRUE]]
            /\ UNCHANGED users
    /\ UNCHANGED <<offline, now, validate_tokens, handshakes, passes>>
    /\ UNCHANGED texVars

\* A response call that fails before it reads the requester's address stands
\* for all that differ in the address, and one without `name` for all that
\* differ in `verifyToken`; a platform refusal carries no profile.
Canonical(form, addr) ==
    /\ form.name = Missing => form.verifyToken = Missing
    /\ (form.name = Missing \/ ~IsIntText(form.verifyToken)) => addr = "10.0.0.1"

Next ==
    \/ \E d \in {ClockStep, MaxAge} : Tick(d)
    \/ \E name \in LoginNames, addr \in Addrs, tok \in VerifyTokens : Handshake(name, addr, tok)
    \/ \E t \in Threads, form \in Forms, addr \in Addrs :
          Canonical(form, addr) /\ RespStart(t, form, addr)
    \/ \E t \in Threads : RespRead(t)
    \/ \E t \in Threads : RespDel(t)
    \/ \E t \in Threads, ok \in BOOLEAN, uuid \in Uuids, name \in Names :
          (~ok => (uuid = "u1" /\ name = "alice")) /\ RespJoin(t, ok, uuid, name)

Spec == Init /\ [][Next]_vars

\* ------------------------------------------------- two names in the cache
InitCache ==
    /\ Init
    /\ offline = FALSE
    /\ users = <<[uuid |-> "u1", name |-> "alice"]>>

NextCache ==
    \/ \E d \in {ClockStep, MaxAge} : Tick(d)
    \/ \E name \in Names, addr \in Addrs, tok \in VerifyTokens : Handshake(name, addr, tok)
    \/ \E t \in Threads, name \in Names, v \in {"0", "1"}, addr \in Addrs :
          RespStart(t, [name |-> name, verifyToken |-> v], addr)
    \/ \E t \in Threads : RespRead(t)
    \/ \E t \in Threads : RespDel(t)
    \/ \E t \in Threads, ok \in BOOLEAN : RespJoin(t, ok, "u1", "alice")

SpecCache == InitCache /\ [][NextCache]_vars

\* ------------------------------------------------------ tokens over the hour
MaxClock == 7200
LongStep == 1800

\* the reason a protected request is refused with: abort(401, ...) of
\* verify_auth_token, or auth_failed's bare abort(401) when it returned no Player
auth_reason(us, tok, t) ==
    IF tok = NoToken THEN "Bad token"
    ELSE IF TokenExpired(tok, t) THEN "Token expired"
    ELSE IF UserGet(us, tok.id) = NoId THEN "Unauthorized"
    ELSE ""

\* a long time passes
TickLong(d) ==
    /\ now + d <= MaxClock
    /\ now' = now + d
    /\ UNCHANGED <<offline, validate_tokens, handshakes, passes, users, req>>
    /\ UNCHANGED <<textures, uploads, fs, uploaded, last>>

\* a request to a protected endpoint carrying `tok`: @auth.login_required
Protected(tok) ==
    /\ last' = [op |-> "AUTH", token |-> tok, at |-> now,
                status |-> IF verify_auth_token(users, tok, now) = NoId THEN 401 ELSE 0,
                reason |-> auth_reason(users, tok, now)]
    /\ UNCHANGED <<offline, now, validate_tokens, handshakes, passes, users, req>>
    /\ UNCHANGED <<textures, uploads, fs, uploaded>>

InitToken ==
    /\ Init
    /\ offline = FALSE

NextToken ==
    \/ TickLong(LongStep)
    \/ Handshake("alice", "10.0.0.1", 0)
    \/ \E t \in Threads : RespStart(t, [name |-> "alice", verifyToken |-> "0"], "10.0.0.1")
    \/ \E t \in Threads : RespRead(t)
    \/ \E t \in Threads : RespDel(t)
    \/ \E t \in Threads, uuid \in Uuids, name \in Names : RespJoin(t, TRUE, uuid, name)
    \/ \E t \in Threads : req[t].token # NoToken /\ Protected(req[t].token)
    \/ Protected(NoToken)

SpecToken == InitToken /\ [][NextToken]_vars

\* =================================================================== textures
MaxRows == 4           \* Texture history rows in one behaviour

Blacklist == {"cape"}              \* Config.SKIN_BLACKLIST
RootUrl == "http://127.0.0.1"      \* Config.ROOT_URL
Sizes == {64, 128, 256, 512, 1024}

TexTypes == {"skin", "Skin", "cape", "Cape"}  \* types a path can name
Paths == {"u1", "bob", "nobody"}

\* str.upper()
Upper(s) == CASE s = "skin" -> "SKIN"
              [] s = "Skin" -> "SKIN"
              [] s = "cape" -> "CAPE"
              [] s = "Cape" -> "CAPE"
              [] OTHER -> s

\* What a request can send as its file: the raw bytes, and what the image
\* library decodes them to (format "" when they are no image at all).
PngA == [bytes |-> "A1", format |-> "PNG", width |-> 64, height |-> 64, pixels |-> "pa"]
PngA2 == [bytes |-> "A2", format |-> "PNG", width |-> 64, height |-> 64, pixels |-> "pa"]
PngB == [bytes |-> "B1", format |-> "PNG", width |-> 64, height |-> 32, pixels |-> "pb"]
Jpeg == [bytes |-> "J1", format |-> "JPEG", width |-> 64, height |-> 64, pixels |-> "pj"]
PngOdd == [bytes |-> "X1", format |-> "PNG", width |-> 100, height |-> 100, pixels |-> "px"]
Garbage == [bytes |-> "G1", format |-> "", width |-> 0, height |-> 0, pixels |-> ""]
Files == {PngA, PngA2, PngB, Jpeg, PngOdd, Garbage}

\* The form fields beside `file`: they become the row's Metadata.
NoMeta == <<>>
MetaForms == {NoMeta, <<[key |-> "model", value |-> "slim"]>>}

\* a token of Player 1 whose validity window is over
ExpiredToken == [id |-> 1, exp |-> -1]

\* The token a login of Player 1 at time 0 issues, the token a first login
\* issues (its payload's id is None), a token nobody signed (or none at all,
\* which the token check reads as the empty text) and an expired one.
BearerTokens == {[id |-> 1, exp |-> Expiration], [id |-> NoId, exp |-> Expiration], NoToken, ExpiredToken}

\* hashlib.sha1(image.tobytes()).hexdigest(): one digest per pixel content.
Sha1(pixels) == "sha1-" \o pixels

\* (mutant) an image is turned away only when both tests fail.
gen_skin_hash_lenient(file) ==
    IF file.format = "" THEN [status |-> 500, hash |-> ""]
    ELSE IF file.format # "PNG" THEN [status |-> 400, hash |-> ""]
    ELSE IF ~(file.width = 2 * file.height \/ file.width = file.height)
            /\ file.width \notin Sizes
    THEN [status |-> 404, hash |-> ""]
    ELSE [status |-> 0, hash |-> Sha1(file.pixels)]

\* gen_skin_hash: Image.open raises on bytes that are no image; 400 for another
\* format, 404 for another size, else the hash.
gen_skin_hash(file) ==
    IF file.format = "" THEN [status |-> 500, hash |-> ""]
    ELSE IF file.format # "PNG" THEN [status |-> 400, hash |-> ""]
    ELSE IF ~(file.width = 2 * file.height \/ file.width = file.height)
            \/ file.width \notin Sizes
    THEN [status |-> 404, hash |-> ""]
    ELSE [status |-> 0, hash |-> Sha1(file.pixels)]

\* the <user:user> path converter: the Player of that identifier or name.
ResolveUser(us, path) ==
    IF \E i \in 1..Len(us) : us[i].uuid = path \/ us[i].name = path
    THEN CHOOSE i \in 1..Len(us) : us[i].uuid = path \/ us[i].name = path
    ELSE NoId

\* Upload.query.filter_by(hash=...).first(): the Blob row's id, 0 for None.
FindUpload(ups, hash) ==
    IF \E i \in 1..Len(ups) : ups[i].hash = hash
    THEN CHOOSE i \in 1..Len(ups) : ups[i].hash = hash /\ \A j \in 1..Len(ups) : ups[j].hash = hash => i <= j
    ELSE 0

\* db.session.add(...) returns None: the Blob just created is not referenced.
SessionAdd(id) == 0

\* fs.open(skin_hash, "wb") and f.write(file): the object of that name holds
\* these bytes; `writes` counts how often the name was written.
FsWrite(store, hash, bytes) ==
    [h \in DOMAIN store \cup {hash} |->
        IF h = hash
        THEN [bytes |-> bytes,
              writes |-> IF hash \in DOMAIN store THEN store[hash].writes + 1 ELSE 1]
        ELSE store[h]]

\* (mutant) the file is written on every upload, Blob row or not.
put_texture_rewrites(user, file, skin_type, metadata, hash) ==
    LET found == FindUpload(uploads, hash)
        upload == IF found = 0 THEN SessionAdd(Len(uploads) + 1) ELSE found
    IN /\ fs' = FsWrite(fs, hash, file.bytes)
       /\ uploads' = IF found = 0
                     THEN Append(uploads, [hash |-> hash, user |-> user])
                     ELSE uploads
       /\ textures' = Append(textures, [user |-> user, tex_type |-> skin_type,
                                        upload |-> upload, meta |-> metadata])
       /\ uploaded' = Append(uploaded, [hash |-> hash, bytes |-> file.bytes])

\* put_texture after gen_skin_hash: the stores once the session is committed.
put_texture(user, file, skin_type, metadata, hash) ==
    LET found == FindUpload(uploads, hash)
        upload == IF found = 0 THEN SessionAdd(Len(uploads) + 1) ELSE found
    IN /\ fs' = IF found = 0 THEN FsWrite(fs, hash, file.bytes) ELSE fs
       /\ uploads' = IF found = 0
                     THEN Append(uploads, [hash |-> hash, user |-> user])
                     ELSE uploads
       /\ textures' = Append(textures, [user |-> user, tex_type |-> skin_type,
                                        upload |-> upload, meta |-> metadata])
       /\ uploaded' = Append(uploaded, [hash |-> hash, bytes |-> file.bytes])

\* (mutant) the query leaves rows without a Blob out before it picks the latest.
LatestWithBlob(u, ty) ==
    IF \E i \in 1..Len(textures) :
          textures[i].user = u /\ textures[i].tex_type = ty /\ textures[i].upload # 0
    THEN CHOOSE i \in 1..Len(textures) :
            /\ textures[i].user = u /\ textures[i].tex_type = ty /\ textures[i].upload # 0
            /\ \A j \in 1..Len(textures) :
                  (textures[j].user = u /\ textures[j].tex_type = ty /\ textures[j].upload # 0)
                      => j <= i
    ELSE 0

\* The rows of UserResource.get's query: the latest row of every type the
\* Player has, newest first.
Latest(u, ty) ==
    IF \E i \in 1..Len(textures) : textures[i].user = u /\ textures[i].tex_type = ty
    THEN CHOOSE i \in 1..Len(textures) :
            /\ textures[i].user = u /\ textures[i].tex_type = ty
            /\ \A j \in 1..Len(textures) :
                  (textures[j].user = u /\ textures[j].tex_type = ty) => j <= i
    ELSE 0
Active(u) == {Latest(u, ty) : ty \in TexTypes} \ {0}

\* dict(textures_json(active)): rows with a Blob, keyed by the upper-cased
\* type; of two rows with one key the one yielded last (the older) stays.
TexturesJson(u) ==
    LET shown == {i \in Active(u) : textures[i].upload # 0}
        keys == {Upper(textures[i].tex_type) : i \in shown}
        row(k) == CHOOSE i \in shown :
                     /\ Upper(textures[i].tex_type) = k
                     /\ \A j \in shown : Upper(textures[j].tex_type) = k => i <= j
    IN [k \in keys |->
           IF textures[row(k)].meta = NoMeta
           THEN [url |-> RootUrl \o "/textures/" \o uploads[textures[row(k)].upload].hash]
           ELSE [url |-> RootUrl \o "/textures/" \o uploads[textures[row(k)].upload].hash,
                 metadata |-> textures[row(k)].meta]]

\* UserResource.get
UserResourceGet(path) ==
    LET u == ResolveUser(users, path)
    IN IF u = NoId THEN [status |-> 404, reason |-> "User not found"]
       ELSE IF DOMAIN TexturesJson(u) = {} THEN [status |-> 404, reason |-> "Skins not found"]
       ELSE [status |-> 200, profileId |-> users[u].uuid, profileName |-> users[u].name,
             textures |-> TexturesJson(u)]

\* ------------------------------------------------------ texture requests
\* (mutant) the ownership check is missing.
DispatchAnyOwner(bearer, path, skin_type) ==
    LET g == verify_auth_token(users, bearer, now)
    IN IF g = NoId THEN 401
       ELSE IF skin_type \in Blacklist THEN 400
       ELSE IF ResolveUser(users, path) = NoId THEN 403
       ELSE 0

\* (mutant) the blacklist is not consulted.
DispatchNoBlacklist(bearer, path, skin_type) ==
    LET g == verify_auth_token(users, bearer, now)
    IN IF g = NoId THEN 401
       ELSE IF ResolveUser(users, path) # g THEN 403
       ELSE 0

\* TextureResource.dispatch_request before the verb handler: 401 without a
\* Player behind the token, 400 for a blacklisted type, 403 for another
\* Player's path; 0 lets the request through.
Dispatch(bearer, path, skin_type) ==
    LET g == verify_auth_token(users, bearer, now)
    IN IF g = NoId THEN 401
       ELSE IF skin_type \in Blacklist THEN 400
       ELSE IF ResolveUser(users, path) # g THEN 403
       ELSE 0

\* dispatch_request drops what the verb handler returned: the view answers
\* None, which the API layer sends as 200 with a null body.
Answer(handler_status) == 200

\* the token is a Player's and the path is another Player's
CrossUser(bearer, path) ==
    /\ verify_auth_token(users, bearer, now) # NoId
    /\ ResolveUser(users, path) # NoId
    /\ ResolveUser(users, path) # verify_auth_token(users, bearer, now)

Record(op, bearer, path, skin_type, status, handler_status) ==
    [op |-> op, status |-> status, handler |-> handler_status,
     cross |-> CrossUser(bearer, path), type |-> skin_type]

Refuse(op, bearer, path, skin_type, status) ==
    /\ last' = Record(op, bearer, path, skin_type, status, 0)
    /\ UNCHANGED <<textures, uploads, fs, uploaded>>

\* the upload both verbs end with: gen_skin_hash, then put_texture's writes.
Upload(op, bearer, path, skin_type, file, metadata) ==
    LET h == gen_skin_hash(file)
    IN IF h.status # 0
       THEN Refuse(op, bearer, path, skin_type, h.status)
       ELSE /\ Len(textures) < MaxRows
            /\ put_texture(ResolveUser(users, path), file, skin_type, metadata, h.hash)
            /\ last' = Record(op, bearer, path, skin_type, Answer(202), 202)

MaxWrites == 2

\* the same upload when db.session.commit() raises: the session is rolled
\* back, the file written before it stays.
UploadFails(op, bearer, path, skin_type, file, metadata) ==
    LET h == gen_skin_hash(file)
    IN IF h.status # 0
       THEN Refuse(op, bearer, path, skin_type, h.status)
       ELSE /\ h.hash \in DOMAIN fs => fs[h.hash].writes < MaxWrites
            /\ fs' = IF FindUpload(uploads, h.hash) = 0
                     THEN FsWrite(fs, h.hash, file.bytes) ELSE fs
            /\ last' = Record(op, bearer, path, skin_type, 500, 0)
            /\ UNCHANGED <<textures, uploads, uploaded>>

\* TextureResource.post: upload by reference.  how: "nofield" when the form
\* names no `file`, "immutable" when request.form refuses pop(), "failed" when
\* the download fails, "nocommit" when the commit fails, "ok" otherwise.
TexPost(bearer, path, skin_type, how, file, metadata) ==
    /\ IF Dispatch(bearer, path, skin_type) # 0
       THEN Refuse("POST", bearer, path, skin_type, Dispatch(bearer, path, skin_type))
       ELSE IF how = "nofield" THEN Refuse("POST", bearer, path, skin_type, 404)
       ELSE IF how = "immutable" THEN Refuse("POST", bearer, path, skin_type, 500)
       ELSE IF how = "failed" THEN Refuse("POST", bearer, path, skin_type, 400)
       ELSE IF how = "nocommit" THEN UploadFails("POST", bearer, path, skin_type, file, metadata)
       ELSE Upload("POST", bearer, path, skin_type, file, metadata)
    /\ UNCHANGED <<offline, now, validate_tokens, handshakes, passes, users, req>>

\* TextureResource.put: upload by direct file.  body: "none" without a file
\* part, "empty" for a part without content, "nocommit" for a file whose
\* commit fails, "file" otherwise.
TexPut(bearer, path, skin_type, body, file, metadata) ==
    /\ IF Dispatch(bearer, path, skin_type) # 0
       THEN Refuse("PUT", bearer, path, skin_type, Dispatch(bearer, path, skin_type))
       ELSE IF body \in {"none", "empty"} THEN Refuse("PUT", bearer, path, skin_type, 400)
       ELSE IF body = "nocommit" THEN UploadFails("PUT", bearer, path, skin_type, file, metadata)
       ELSE Upload("PUT", bearer, path, skin_type, file, metadata)
    /\ UNCHANGED <<offline, now, validate_tokens, handshakes, passes, users, req>>

\* TextureResource.delete: a row without a Blob is added and committed.
TexDelete(bearer, path, skin_type) ==
    /\ IF Dispatch(bearer, path, skin_type) # 0
       THEN Refuse("DELETE", bearer, path, skin_type, Dispatch(bearer, path, skin_type))
       ELSE /\ Len(textures) < MaxRows
            /\ textures' = Append(textures, [user |-> ResolveUser(users, path),
                                             tex_type |-> skin_type,
                                             upload |-> 0, meta |-> NoMeta])
            /\ uploaded' = Append(uploaded, [hash |-> "", bytes |-> ""])
            /\ last' = Record("DELETE", bearer, path, skin_type, Answer(202), 202)
            /\ UNCHANGED <<uploads, fs>>
    /\ UNCHANGED <<offline, now, validate_tokens, handshakes, passes, users, req>>

\* UserResource.get, answered from the committed rows.
ProfileGet(path) ==
    /\ last' = [op |-> "GET", status |-> UserResourceGet(path).status, handler |-> 0,
                cross |-> FALSE, type |-> ""]
    /\ UNCHANGED <<textures, uploads, fs, uploaded>>
    /\ UNCHANGED <<offline, now, validate_tokens, handshakes, passes, users, req>>

\* The texture resource is exercised on a store that holds two Players.
InitTex ==
    /\ offline = FALSE
    /\ now = 0
    /\ validate_tokens = <<>>
    /\ handshakes = 0
    /\ passes = [h \in {} |-> 0]
    /\ users = <<[uuid |-> "u1", name |-> "alice"], [uuid |-> "u2", name |-> "bob"]>>
    /\ req = [t \in Threads |-> Idle]
    /\ textures = <<>>
    /\ uploads = <<>>
    /\ fs = [h \in {} |-> ""]
    /\ uploaded = <<>>
    /\ last = [op |-> "none", status |-> 0, handler |-> 0, cross |-> FALSE, type |-> ""]

\* A request that never reads its file stands for all that differ in the file.
Read(bearer, path, ty, how, file, metadata) ==
    \/ Dispatch(bearer, path, ty) = 0 /\ how \in {"ok", "file", "nocommit"}
    \/ file = PngA /\ metadata = NoMeta

\* The requests of a specification: the inputs it draws them from.
Requests(bearers, paths, types, hows, bodies, files, metas) ==
    \/ \E bearer \in bearers, path \in paths, ty \in types, how \in hows,
          file \in files, metadata \in metas :
            /\ Read(bearer, path, ty, how, file, metadata)
            /\ TexPost(bearer, path, ty, how, file, metadata)
    \/ \E bearer \in bearers, path \in paths, ty \in types, body \in bodies,
          file \in files, metadata \in metas :
            /\ Read(bearer, path, ty, body, file, metadata)
            /\ TexPut(bearer, path, ty, body, file, metadata)
    \/ \E bearer \in bearers, path \in paths, ty \in types :
            TexDelete(bearer, path, ty)
    \/ \E path \in paths : ProfileGet(path)

\* The history of one Player's textures: Player 1 uploads and removes under
\* either spelling of a type, and anybody reads the profile.
NextTex ==
    Requests({[id |-> 1, exp |-> Expiration]}, {"u1"}, {"skin", "Skin"},
             {"ok"}, {"file"}, {PngA, PngA2, PngB}, {NoMeta})

SpecTex == InitTex /\ [][NextTex]_vars

\* The gate in front of the verb handlers: every kind of token, path, type
\* and body, over one image.
NextGate ==
    Requests(BearerTokens, Paths, {"skin", "cape"},
             {"nofield", "immutable", "failed", "ok"}, {"none", "empty", "file"},
             {PngA, Jpeg, PngOdd, Garbage}, MetaForms)

SpecGate == InitTex /\ [][NextGate]_vars

\* The spellings of a blacklisted type: Player 1 uploads and removes under
\* each of them, and anybody reads the profile.
NextCape ==
    Requests({[id |-> 1, exp |-> Expiration]}, {"u1"}, {"skin", "cape", "Cape"},
             {"ok"}, {"file"}, {PngA, PngB}, {NoMeta})

SpecCape == InitTex /\ [][NextCape]_vars

\* Uploads that fail, among uploads that work: Player 1's own requests with
\* images of every kind, downloads and commits that fail.
NextFail ==
    Requests({[id |-> 1, exp |-> Expiration]}, {"u1"}, {"skin"},
             {"nofield", "failed", "nocommit", "ok"}, {"none", "empty", "nocommit", "file"},
             {PngA, PngB, Jpeg, PngOdd, Garbage}, {NoMeta})

SpecFail == InitTex /\ [][NextFail]_vars

\* ------------------------------------------------------- images of any kind
Formats == {"PNG", "JPEG", "GIF", ""}
Widths == {32, 64, 65, 70, 100, 128, 256, 512, 1024, 2048}
Heights == {16, 32, 35, 50, 64, 70, 100, 128, 256, 512, 1024, 2048}
Images == [bytes : {"I1"}, format : Formats, width : Widths, height : Heights,
           pixels : {"pi"}]

\* Player 1's PUT of `file` to an own type, past dispatch_request: the upload
\* of TextureResource.put, with the image kept beside the outcome.
PutImage(file) ==
    LET h == gen_skin_hash(file)
    IN /\ IF h.status # 0
          THEN UNCHANGED <<textures, uploads, fs, uploaded>>
          ELSE /\ Len(textures) < MaxRows
               /\ put_texture(1, file, "skin", NoMeta, h.hash)
       /\ last' = [op |-> "PUT", file |-> file,
                   status |-> IF h.status # 0 THEN h.status ELSE Answer(202),
                   handler |-> IF h.status # 0 THEN 0 ELSE 202]
       /\ UNCHANGED <<offline, now, validate_tokens, handshakes, passes, users, req>>

NextImage == \E file \in Images : PutImage(file)

SpecImage == InitTex /\ [][NextImage]_vars

\* ------------------------------------------------- uploads running together
\* put_texture is three steps apart in time: the Blob query, the write to the
\* storage location, and the session's adds with their commit.  Each request
\* has passed dispatch_request for its own Player.
NoUpload == [pc |-> "idle", user |-> NoId, type |-> "", file |-> Garbage, hash |-> "", found |-> 0]

InitRace ==
    /\ offline = FALSE
    /\ now = 0
    /\ validate_tokens = <<>>
    /\ handshakes = 0
    /\ passes = [h \in {} |-> 0]
    /\ users = <<[uuid |-> "u1", name |-> "alice"], [uuid |-> "u2", name |-> "bob"]>>
    /\ req = [t \in Threads |-> NoUpload]
    /\ textures = <<>>
    /\ uploads = <<>>
    /\ fs = [h \in {} |-> ""]
    /\ uploaded = <<>>
    /\ last = [op |-> "none", status |-> 0, handler |-> 0, cross |-> FALSE, type |-> ""]

\* skin_hash = gen_skin_hash(file); upload = Upload.query...first()
UpQuery(t, user, skin_type, file) ==
    /\ req[t].pc = "idle"
    /\ gen_skin_hash(file).status = 0
    /\ req' = [req EXCEPT ![t] = [pc |-> "queried", user |-> user, type |-> skin_type,
                                  file |-> file, hash |-> gen_skin_hash(file).hash,
                                  found |-> FindUpload(uploads, gen_skin_hash(file).hash)]]
    /\ UNCHANGED <<offline, now, validate_tokens, handshakes, passes, users>>
    /\ UNCHANGED texVars

\* if upload is None: the file is written under its hash
UpWrite(t) ==
    /\ req[t].pc = "queried"
    /\ req[t].found = 0
    /\ fs' = FsWrite(fs, req[t].hash, req[t].file.bytes)
    /\ req' = [req EXCEPT ![t].pc = "written"]
    /\ UNCHANGED <<offline, now, validate_tokens, handshakes, passes, users>>
    /\ UNCHANGED <<textures, uploads, uploaded, last>>

\* the Blob row (when none was found), the Texture row, db.session.commit()
UpCommit(t) ==
    /\ \/ req[t].pc = "written"
       \/ req[t].pc = "queried" /\ req[t].found # 0
    /\ Len(textures) < MaxRows
    /\ uploads' = IF req[t].found = 0
                  THEN Append(uploads, [hash |-> req[t].hash, user |-> req[t].user])
                  ELSE uploads
    /\ textures' = Append(textures,
                          [user |-> req[t].user, tex_type |-> req[t].type,
                           upload |-> IF req[t].found = 0
                                      THEN SessionAdd(Len(uploads) + 1) ELSE req[t].found,
                           meta |-> NoMeta])
    /\ uploaded' = Append(uploaded, [hash |-> req[t].hash, bytes |-> req[t].file.bytes])
    /\ req' = [req EXCEPT ![t] = NoUpload]
    /\ UNCHANGED <<offline, now, validate_tokens, handshakes, passes, users>>
    /\ UNCHANGED <<fs, last>>

NextRace ==
    \/ \E t \in Threads, user \in {1, 2}, file \in {PngA, PngA2, PngB} :
          UpQuery(t, user, "skin", file)
    \/ \E t \in Threads : UpWrite(t)
    \/ \E t \in Threads : UpCommit(t)

SpecRace == InitRace /\ [][NextRace]_vars

\* ===================================================================== claims
\* A response call below is one that carries `name` and an integer
\* `verifyToken` in online mode (req[t].parsed): it got as far as the cache.
Finished(t) == req[t].pc = "done" /\ req[t].parsed
Verified(t) == req[t].found # 0 /\ req[t].exc = "none" /\ req[t].joined

\* C1: a response call issues a token only if the pending entry was there,
\* fresh, with the supplied token and the requester's address, and the platform
\* said yes; every other response call ends 403 with no token.
C1_ForbiddenUnlessVerified ==
    \A t \in Threads :
        Finished(t) =>
            /\ req[t].token # NoToken => Verified(t) /\ req[t].status = 200
            /\ ~Verified(t) => req[t].status = 403 /\ req[t].token = NoToken

\* C2: the token a successful response call issued, presented before it
\* expires, authenticates as the Player whose account identifier was confirmed.
C2_TokenAuthenticatesPlayer ==
    \A t \in Threads :
        (Finished(t) /\ req[t].status = 200 /\ ~TokenExpired(req[t].token, now)) =>
            LET id == verify_auth_token(users, req[t].token, now)
            IN id # NoId /\ users[id].uuid = req[t].userId

\* C3: when a response call succeeds, a Player with the confirmed identifier
\* and the reported display name is committed, and no Player is added for an
\* identifier that had one.
C3_CreateOrUpdatePlayer ==
    [][\A t \in Threads :
          (req[t].pc = "join" /\ req'[t].pc = "done" /\ req'[t].status = 200) =>
              LET i == FindUser(users', req'[t].userId)
              IN /\ i # 0
                 /\ users'[i].name = req'[t].userName
                 /\ FindUser(users, req'[t].userId) # 0 => Len(users') = Len(users)]_vars

\* C8: of the response calls that read one handshake's entry, at most one goes
\* on to the session check.
C8_TokenUsedOnce == \A h \in DOMAIN passes : passes[h] <= 1

\* C9: every response call ends 200, 403 or 501, never with an unhandled error.
C9_DocumentedOutcomes ==
    \A t \in Threads : Finished(t) => req[t].status \in {200, 403, 501}

\* C10: the entry a response call found is gone once the call is past its
\* finally block, whatever the outcome; and a later response call for the name
\* either finds the entry of a newer handshake or fails 403 "no pending request".
EntryGone(t) == \A i \in 1..Len(validate_tokens) : validate_tokens[i].hs # req[t].found
C10_EntryRemoved ==
    /\ [](\A t \in Threads :
            (req[t].pc \in {"join", "done"} /\ req[t].found # 0) => EntryGone(t))
    /\ [][\A t2 \in Threads :
            (req[t2].pc \in {"idle", "done"} /\ req'[t2] # req[t2] /\ req'[t2].parsed) =>
                \A t \in Threads :
                    (req[t].pc = "done" /\ req[t].found # 0 /\ req[t].name = req'[t2].name) =>
                        \/ req'[t2].found > req[t].found
                        \/ /\ req'[t2].pc = "done"
                           /\ req'[t2].status = 403
                           /\ req'[t2].reason = NoPending]_vars

\* C10's case: a wrong-token attempt consumed the entry of the latest handshake
\* and another response call then found nothing pending.
C10_Witness ==
    \E t, t2 \in Threads :
        /\ t # t2
        /\ req[t].pc = "done" /\ req[t].exc = "abort_token" /\ req[t].found = handshakes
        /\ req[t2].pc = "done" /\ req[t2].parsed /\ req[t2].reason = NoPending
        /\ validate_tokens = <<>>

TexOps == {"POST", "PUT", "DELETE"}
Stores == <<textures, uploads, fs>>

\* C11: in offline mode every response call ends 501 whatever it carries and
\* whatever the cache holds, asks the platform nothing, issues no token and
\* leaves the cache and the Player store as they were.
C11_OfflineGate ==
    /\ [](offline =>
            \A t \in Threads :
                /\ req[t].pc \in {"idle", "done"}
                /\ req[t].pc = "done" =>
                       (req[t].status = 501 /\ ~req[t].asked /\ req[t].token = NoToken))
    /\ [][(offline /\ req' # req) => UNCHANGED <<validate_tokens, users>>]_vars

\* C11's case: offline, a handshake left a pending entry, and a response call
\* was answered 501.
C11_Witness ==
    /\ offline
    /\ validate_tokens # <<>>
    /\ \E t \in Threads : req[t].pc = "done" /\ req[t].status = 501

\* C12: a token issued at login is accepted by a protected request made up to
\* 3600 s after it was issued and refused 401 "Token expired" after that; a
\* token this server did not sign is refused 401 "Bad token".
C12_TokenExpiry ==
    last.op = "AUTH" =>
        IF last.token = NoToken
        THEN last.status = 401 /\ last.reason = "Bad token"
        ELSE IF last.at <= last.token.exp
        THEN last.status = 0
        ELSE last.status = 401 /\ last.reason = "Token expired"

\* the pending entries of names other than `name`
Others(c, name) == {c[i] : i \in {j \in 1..Len(c) : c[j].key # name}}

\* C19, the cache: no two entries have one name.
C19_OneEntryPerName ==
    \A i, j \in 1..Len(validate_tokens) :
        validate_tokens[i].key = validate_tokens[j].key => i = j

\* C19, the handshake: the new entry is the only one of its name, and the
\* entries of other names are what they were.
C19_HandshakeReplaces ==
    [][handshakes' = handshakes + 1 =>
          \E i \in 1..Len(validate_tokens') :
              /\ validate_tokens'[i].hs = handshakes'
              /\ Others(validate_tokens', validate_tokens'[i].key)
                     = Others(validate_tokens, validate_tokens'[i].key)]_vars

\* C19, the response: a call that found a pending entry succeeds only by
\* matching the token and address of the entry it read, which no handshake
\* older than the one it found wrote; any other such call ends 403.
C19_OnlyLatestSucceeds ==
    \A t \in Threads :
        (req[t].pc \in {"join", "done"} /\ req[t].found # 0) =>
            /\ (req[t].pc = "join" \/ req[t].asked) => req[t].exc = "none"
            /\ (req[t].pc = "done" /\ req[t].exc # "none") => req[t].status = 403

\* C19: one entry per name, a handshake replaces its name's entry and leaves
\* the others, and only the latest handshake's token and address succeed.
C19_LatestHandshakeOnly ==
    /\ []C19_OneEntryPerName
    /\ C19_HandshakeReplaces
    /\ []C19_OnlyLatestSucceeds

\* C4 as amended: a texture request with a Player's token on another Player's
\* path is refused, 403 unless the type is blacklisted (then 400, from the
\* check that comes first), and adds no row, Blob or stored object.
C4_CrossUserRefused ==
    /\ []((last.op \in TexOps /\ last.cross) =>
             last.status = IF last.type \in Blacklist THEN 400 ELSE 403)
    /\ [][(last'.op \in TexOps /\ last'.cross) => UNCHANGED Stores]_vars

\* C4 as claimed: every such request is refused 403 and adds nothing.
C4_CrossUserForbidden ==
    /\ []((last.op \in TexOps /\ last.cross) => last.status = 403)
    /\ [][(last'.op \in TexOps /\ last'.cross) => UNCHANGED Stores]_vars

\* C4's case: Player 1's token on Player 2's path was refused 403 while the
\* store held rows.
C4_Witness ==
    last.op \in TexOps /\ last.cross /\ last.status = 403 /\ Len(textures) > 0

\* the most recent history row of Player u for type ty, 0 when there is none
MostRecent(u, ty) ==
    LET rows == {i \in 1..Len(textures) :
                    textures[i].user = u /\ textures[i].tex_type = ty}
    IN IF rows = {} THEN 0 ELSE CHOOSE i \in rows : \A j \in rows : j <= i

\* C13: every POST, PUT or DELETE for type "cape" is refused with a 4xx
\* status, whatever token it carries, and adds no row, Blob or stored object.
C13_BlacklistEnforced ==
    /\ []((last.op \in TexOps /\ last.type \in Blacklist) => last.status \in 400..499)
    /\ [][(last'.op \in TexOps /\ last'.type \in Blacklist) => UNCHANGED Stores]_vars

\* C13's case: the owner's valid token on the owner's path was refused 400
\* for type "cape" while the store held rows.
C13_Witness ==
    /\ last.op \in TexOps /\ last.type \in Blacklist
    /\ last.status = 400 /\ ~last.cross /\ Len(textures) > 0

\* the textures map of a Player's profile response (empty when it is a 404)
ProfileTextures(u) ==
    LET r == UserResourceGet(users[u].uuid)
    IN IF r.status = 200 THEN r.textures ELSE [k \in {} |-> [url |-> ""]]

\* the latest row of (u, ty) was written by an upload / by a removal
Players == 1..Len(users)
LastUploaded(u, ty) == MostRecent(u, ty) # 0 /\ uploaded[MostRecent(u, ty)].hash # ""
\* the row of (u, ty) before row i, 0 when i is the first
Before(u, ty, i) ==
    IF \E j \in 1..(i - 1) : textures[j].user = u /\ textures[j].tex_type = ty
    THEN CHOOSE j \in 1..(i - 1) :
            /\ textures[j].user = u /\ textures[j].tex_type = ty
            /\ \A k \in 1..(i - 1) :
                  (textures[k].user = u /\ textures[k].tex_type = ty) => k <= j
    ELSE 0
\* the latest row of (u, ty) is a removal of a texture that referenced a Blob
Removed(u, ty) ==
    /\ MostRecent(u, ty) # 0
    /\ uploaded[MostRecent(u, ty)].hash = ""
    /\ Before(u, ty, MostRecent(u, ty)) # 0
    /\ textures[Before(u, ty, MostRecent(u, ty))].upload # 0

\* C5: while the latest request for a Player's type is an upload, the profile
\* shows that type with the url of the uploaded content's hash.
C5_RecencyWins ==
    \A u \in Players, ty \in TexTypes :
        LastUploaded(u, ty) =>
            /\ Upper(ty) \in DOMAIN ProfileTextures(u)
            /\ ProfileTextures(u)[Upper(ty)].url =
                   RootUrl \o "/textures/" \o uploaded[MostRecent(u, ty)].hash

\* C6: two uploads of different bytes with one content hash leave one Blob row
\* of that hash, and both history rows reference it.
C6_ContentHashDedup ==
    \A i, j \in 1..Len(textures) :
        (/\ i < j
         /\ uploaded[i].hash # ""
         /\ uploaded[i].hash = uploaded[j].hash
         /\ uploaded[i].bytes # uploaded[j].bytes) =>
            /\ Cardinality({b \in 1..Len(uploads) : uploads[b].hash = uploaded[i].hash}) = 1
            /\ textures[i].upload = FindUpload(uploads, uploaded[i].hash)
            /\ textures[j].upload = FindUpload(uploads, uploaded[i].hash)

\* rows i - 1 and i come from two uploads in sequence of the same bytes under
\* one Player and type
Twice(i) ==
    /\ i \in 2..Len(textures)
    /\ uploaded[i].hash # ""
    /\ uploaded[i] = uploaded[i - 1]
    /\ textures[i].user = textures[i - 1].user
    /\ textures[i].tex_type = textures[i - 1].tex_type

\* C14: two uploads in sequence of the same bytes under one Player and type
\* add one history row each, and the storage holds the object named by the
\* content hash, written once; it holds these bytes when the first of the two
\* was the first upload of that content.
C14_IdempotentReuse ==
    /\ Len(uploaded) = Len(textures)
    /\ \A i \in 1..Len(textures) :
          Twice(i) =>
              /\ uploaded[i].hash \in DOMAIN fs
              /\ fs[uploaded[i].hash].writes = 1
              /\ (\A j \in 1..(i - 2) : uploaded[j].hash # uploaded[i].hash)
                     => fs[uploaded[i].hash].bytes = uploaded[i].bytes

\* C14's case: the first two uploads carried the same bytes of unseen content.
C14_Witness ==
    /\ Twice(2)
    /\ fs[uploaded[2].hash].bytes = uploaded[2].bytes
    /\ last.op \in {"POST", "PUT"} /\ last.handler = 202

\* C15: whatever uploads run together, no two Blob rows have one content hash,
\* and a Blob row, once there, is never changed or removed.
C15_OneBlobPerHash ==
    /\ [](\A i, j \in 1..Len(uploads) : uploads[i].hash = uploads[j].hash => i = j)
    /\ [][Len(uploads') >= Len(uploads)
            /\ SubSeq(uploads', 1, Len(uploads)) = uploads]_vars

\* C16: a texture request whose verb handler ran to its `return ..., 202` is
\* answered 202.
C16_AcceptedIsAnswered ==
    (last.op \in TexOps /\ last.handler = 202) => last.status = 202

\* the content hashes that have a committed Blob row
BlobHashes == {uploads[i].hash : i \in 1..Len(uploads)}

\* C17: an upload that fails commits no row and leaves the storage without an
\* object that has no Blob row; and every Blob row's bytes are in the storage.
C17_NoPartialResult ==
    /\ [](BlobHashes \subseteq DOMAIN fs)
    /\ []((last.op \in {"POST", "PUT"} /\ last.handler # 202) =>
            DOMAIN fs \subseteq BlobHashes)
    /\ [][(last'.op \in {"POST", "PUT"} /\ last'.handler # 202) =>
            UNCHANGED <<textures, uploads>>]_vars

\* what the image rules admit
Acceptable(file) ==
    /\ file.format = "PNG"
    /\ file.width \in {64, 128, 256, 512, 1024}
    /\ (file.height = file.width \/ file.width = 2 * file.height)

\* C18: an upload is accepted exactly when the image is a PNG whose width is
\* 64, 128, 256, 512 or 1024 and whose height is the width or half of it; any
\* other is turned away with nothing stored or recorded.
C18_ImageValidation ==
    /\ [](last.op = "PUT" => (last.handler = 202 <=> Acceptable(last.file)))
    /\ [][(last'.op = "PUT" /\ ~Acceptable(last'.file)) =>
            UNCHANGED <<textures, uploads, fs, uploaded>>]_vars

\* C18's case: a 64x32 PNG was accepted after other uploads had been.
C18_Witness ==
    /\ last.op = "PUT" /\ last.handler = 202
    /\ last.file.format = "PNG" /\ last.file.width = 64 /\ last.file.height = 32
    /\ Len(textures) > 1

\* a 100 x 100 PNG was turned away and the store kept its rows
C18_Rejected ==
    /\ last.op = "PUT" /\ last.status = 404
    /\ last.file.format = "PNG" /\ last.file.width = 100 /\ last.file.height = 100
    /\ Len(textures) > 0

\* C20: no Player's profile has an entry under the upper-cased form of a
\* blacklisted type.
C20_NoBlacklistedKey ==
    \A u \in Players, b \in Blacklist : Upper(b) \notin DOMAIN ProfileTextures(u)

\* a removal appends one row without a Blob and touches nothing else
RemovalAppends ==
    [][(last'.op = "DELETE" /\ last'.handler = 202) =>
          /\ Len(textures') = Len(textures) + 1
          /\ SubSeq(textures', 1, Len(textures)) = textures
          /\ textures'[Len(textures')].upload = 0
          /\ uploads' = uploads
          /\ fs' = fs]_vars

\* C7 as claimed: once a texture that referenced a Blob is removed, the profile
\* has no entry for the type until it is uploaded again, and the removal only
\* appends a row.
C7_TombstoneHides ==
    /\ [](\A u \in Players, ty \in TexTypes :
            Removed(u, ty) => Upper(ty) \notin DOMAIN ProfileTextures(u))
    /\ RemovalAppends

\* another spelling of the type, with the same key in the profile, is shown
Sibling(u, ty) ==
    \E other \in TexTypes :
        /\ other # ty /\ Upper(other) = Upper(ty)
        /\ MostRecent(u, other) # 0 /\ textures[MostRecent(u, other)].upload # 0

\* C7 as amended: the same, unless another spelling of the type currently
\* references a Blob (the entry under the shared key is then that one's).
C7_TombstoneHidesType ==
    /\ [](\A u \in Players, ty \in TexTypes :
            (Removed(u, ty) /\ ~Sibling(u, ty)) => Upper(ty) \notin DOMAIN ProfileTextures(u))
    /\ RemovalAppends

\* C7's case: a texture that referenced a Blob was removed, no other spelling
\* is shown, and a profile request has been answered since.
C7_Witness ==
    \E u \in Players, ty \in TexTypes :
        Removed(u, ty) /\ ~Sibling(u, ty) /\ last.op = "GET" /\ last.status = 404

====
